---- MODULE Spec2Model ----
(***************************************************************************)
(* Model of dashboard.py: the cached loader carregar_dados (IBGE REST API  *)
(* with a CSV fallback) and the module-level aggregation that follows it.  *)
(*                                                                         *)
(* A pandas DataFrame is a record [columns, rows]: the set of column names *)
(* and the sequence of rows, each row a record over the columns.  A raised *)
(* exception is a value [raised |-> <exception name>].  NaN is the string  *)
(* NaN.                                                                    *)
(***************************************************************************)
EXTENDS Integers, Sequences, FiniteSets, TLC

VARIABLES
    now,                    \* wall clock, seconds
    cache,                  \* the st.cache_data entry of carregar_dados
    lastOp,                 \* last step taken: "init", "tick", "rerun", "aggregate"
    outcome,                \* how the last script run ended
    requests,               \* network requests issued by the last run, in order
    api_exc,                \* exception caught at line 61 in the last run
    csv_exc,                \* exception raised by the except block in the last run
    estados_json,           \* local of carregar_dados (kept when the API path returned)
    mun_json,               \* local of carregar_dados (kept when the API path returned)
    csv_municipios,         \* frame read at line 66
    csv_estados,            \* frame read at line 67
    df_estados,             \* module level, line 84
    df_municipios,          \* module level, line 84
    fonte,                  \* module level, line 84
    total_municipios,       \* line 91
    total_estados,          \* line 92
    mun_por_regiao,         \* line 94 (the value idxmax reads at line 95)
    regiao_mais_municipios, \* line 95
    mun_por_regiao_ord,     \* mun_por_regiao after lines 105-109
    mun_por_estado          \* lines 146-155

vars == <<now, cache, lastOp, outcome, requests, api_exc, csv_exc, estados_json,
          mun_json, csv_municipios, csv_estados, df_estados, df_municipios, fonte,
          total_municipios, total_estados, mun_por_regiao, regiao_mais_municipios,
          mun_por_regiao_ord, mun_por_estado>>

(***************************************************************************)
(* Bounds of the model and constants of the program.                       *)
(***************************************************************************)
\* longest JSON array / CSV body a response carries
MaxRows == 2
\* number of states (UF) a ranking fixture may hold
MaxUF == 12
\* largest municipality count of a state in a ranking fixture
MaxCount == 6
\* the clock stops here
MaxTime == 3600
\* @st.cache_data(ttl=3600)
TTL == 3600
\* .head(10)
TopN == 10

NaN == "NaN"
Unset == [unset |-> TRUE]
NoExc == "none"
FonteApi == "API IBGE"
FonteCsv == "CSV GitHub (fallback)"

Raise(name) == [raised |-> name]
IsRaised(v) == "raised" \in DOMAIN v

DataFrame(cols, rows) == [columns |-> cols, rows |-> rows]

Max(S) == CHOOSE x \in S : \A y \in S : y <= x
Min(S) == CHOOSE x \in S : \A y \in S : x <= y

RECURSIVE SeqsUpTo(_, _)
SeqsUpTo(S, n) ==
    IF n = 0 THEN {<<>>}
    ELSE LET shorter == SeqsUpTo(S, n - 1)
         IN  shorter \cup {Append(s, x) : s \in {t \in shorter : Len(t) = n - 1}, x \in S}

(***************************************************************************)
(* What the network can answer.                                            *)
(***************************************************************************)
EstadoRO ==
    [id |-> 11, sigla |-> "RO", nome |-> "Rondonia",
     regiao |-> [id |-> 1, sigla |-> "N", nome |-> "Norte"]]
EstadoSemSigla ==
    [id |-> 35, nome |-> "Sao Paulo",
     regiao |-> [id |-> 3, sigla |-> "SE", nome |-> "Sudeste"]]
EstadoSemRegiaoNome ==
    [id |-> 35, sigla |-> "SP", nome |-> "Sao Paulo",
     regiao |-> [id |-> 3, sigla |-> "SE"]]

UFdeRO == [id |-> 11, sigla |-> "RO", nome |-> "Rondonia", regiao |-> [nome |-> "Norte"]]
UFdeSP == [id |-> 35, sigla |-> "SP", nome |-> "Sao Paulo", regiao |-> [nome |-> "Sudeste"]]
MunAltaFloresta ==
    [id |-> 1100015, nome |-> "Alta Floresta D'Oeste",
     microrregiao |-> [mesorregiao |-> [UF |-> UFdeRO]]]
MunSaoPaulo ==
    [id |-> 3550308, nome |-> "Sao Paulo",
     microrregiao |-> [mesorregiao |-> [UF |-> UFdeSP]]]
MunSemMicrorregiao ==
    [id |-> 5300108, nome |-> "Brasilia"]
MunSemRegiaoNome ==
    [id |-> 3304557, nome |-> "Rio de Janeiro",
     microrregiao |-> [mesorregiao |-> [UF |->
        [id |-> 33, sigla |-> "RJ", nome |-> "Rio de Janeiro", regiao |-> [sigla |-> "SE"]]]]]

ApiEstadoRecords == {EstadoRO, EstadoSemSigla, EstadoSemRegiaoNome}
ApiMunicipioRecords == {MunAltaFloresta, MunSaoPaulo, MunSemMicrorregiao, MunSemRegiaoNome}

\* requests.get(...) ; raise_for_status() ; .json()
HttpFailures == {[kind |-> "Timeout"], [kind |-> "HTTPError"], [kind |-> "JSONDecodeError"]}
HttpResponses(records) ==
    HttpFailures \cup {[kind |-> "ok", body |-> b] : b \in SeqsUpTo(records, MaxRows)}

CsvEstadosColumns == {"codigo_uf", "uf", "nome", "latitude", "longitude", "regiao"}
CsvMunicipiosColumns == {"codigo_ibge", "nome", "codigo_uf"}
CsvEstadoRO ==
    [codigo_uf |-> 11, uf |-> "RO", nome |-> "Rondonia", latitude |-> -11, longitude |-> -63,
     regiao |-> "Norte"]
CsvMunAltaFloresta == [codigo_ibge |-> 1100015, nome |-> "Alta Floresta D'Oeste", codigo_uf |-> 11]
CsvMunSemEstado == [codigo_ibge |-> 9900001, nome |-> "Sem Estado", codigo_uf |-> 99]

\* pd.read_csv(url): a frame, or an error of the download or the parse
CsvEstadosResponses ==
    {[kind |-> "error"]}
    \cup {[kind |-> "ok", frame |-> DataFrame(CsvEstadosColumns, r)] :
            r \in SeqsUpTo({CsvEstadoRO}, MaxRows)}
    \cup {[kind |-> "ok",
           frame |-> DataFrame(CsvEstadosColumns \ {"regiao"},
                               <<[codigo_uf |-> 11, uf |-> "RO", nome |-> "Rondonia",
                                  latitude |-> -11, longitude |-> -63]>>)]}
CsvMunicipiosResponses ==
    {[kind |-> "error"]}
    \cup {[kind |-> "ok", frame |-> DataFrame(CsvMunicipiosColumns, r)] :
            r \in SeqsUpTo({CsvMunAltaFloresta, CsvMunSemEstado}, MaxRows)}
    \cup {[kind |-> "ok",
           frame |-> DataFrame(CsvMunicipiosColumns \ {"codigo_uf"},
                               <<[codigo_ibge |-> 1100015, nome |-> "Alta Floresta D'Oeste"]>>)]}

(***************************************************************************)
(* pandas, as far as the program uses it.                                  *)
(***************************************************************************)
\* pd.DataFrame([...]) of a list of dicts: an empty list gives a frame without columns
FrameFromRecords(cols, rows) == DataFrame(IF rows = <<>> THEN {} ELSE cols, rows)

\* df.rename(columns={old: new}); a missing column is ignored
Rename(df, old, new) ==
    IF old \notin df.columns THEN df
    ELSE LET cols == (df.columns \ {old}) \cup {new}
         IN  DataFrame(cols,
                 [i \in 1..Len(df.rows) |->
                     [c \in cols |-> IF c = new THEN df.rows[i][old] ELSE df.rows[i][c]]])

\* df[[cols]]: KeyError when a column is missing
Select(df, cols) ==
    IF ~(cols \subseteq df.columns) THEN Raise("KeyError")
    ELSE DataFrame(cols, [i \in 1..Len(df.rows) |-> [c \in cols |-> df.rows[i][c]]])

\* suffixes=("", "_est"): the name a right-hand column gets when the left has it too
Suffixed(c) ==
    CASE c = "uf" -> "uf_est"
      [] c = "estado" -> "estado_est"
      [] c = "regiao" -> "regiao_est"
      [] OTHER -> c

RECURSIVE Flatten(_)
Flatten(ss) == IF ss = <<>> THEN <<>> ELSE Head(ss) \o Flatten(Tail(ss))

\* MergeLeft with how="inner": left rows without a match are dropped
MergeInner(left, right, key) ==
    IF key \notin left.columns \/ key \notin right.columns THEN Raise("KeyError")
    ELSE LET rcols == right.columns \ {key}
             OutName(c) == IF c \in left.columns THEN Suffixed(c) ELSE c
             cols == left.columns \cup {OutName(c) : c \in rcols}
             Src(c) == CHOOSE rc \in rcols : OutName(rc) = c
             Joined(l, r) == [c \in cols |-> IF c \in left.columns THEN l[c] ELSE r[Src(c)]]
             RowsOf(l) ==
                 LET m == SelectSeq(right.rows, LAMBDA r : r[key] = l[key])
                 IN  [j \in 1..Len(m) |-> Joined(l, m[j])]
         IN  DataFrame(cols, Flatten([i \in 1..Len(left.rows) |-> RowsOf(left.rows[i])]))

\* left.merge(right, on=key, how="left", suffixes=("", "_est"))
MergeLeft(left, right, key) ==
    IF key \notin left.columns \/ key \notin right.columns THEN Raise("KeyError")
    ELSE LET rcols == right.columns \ {key}
             OutName(c) == IF c \in left.columns THEN Suffixed(c) ELSE c
             cols == left.columns \cup {OutName(c) : c \in rcols}
             Src(c) == CHOOSE rc \in rcols : OutName(rc) = c
             Joined(l, r) == [c \in cols |-> IF c \in left.columns THEN l[c] ELSE r[Src(c)]]
             Alone(l) == [c \in cols |-> IF c \in left.columns THEN l[c] ELSE NaN]
             RowsOf(l) ==
                 LET m == SelectSeq(right.rows, LAMBDA r : r[key] = l[key])
                 IN  IF m = <<>> THEN <<Alone(l)>>
                     ELSE [j \in 1..Len(m) |-> Joined(l, m[j])]
         IN  DataFrame(cols, Flatten([i \in 1..Len(left.rows) |-> RowsOf(left.rows[i])]))

(***************************************************************************)
(* carregar_dados, lines 24-81.                                            *)
(***************************************************************************)
\* requests.get(url, timeout) ; raise_for_status() ; json()
HttpJson(resp) == IF resp.kind = "ok" THEN [value |-> resp.body] ELSE Raise(resp.kind)

EstadoKeysPresent(e) ==
    /\ {"id", "sigla", "nome", "regiao"} \subseteq DOMAIN e
    /\ "nome" \in DOMAIN e.regiao

MunicipioKeysPresent(m) ==
    /\ {"id", "nome", "microrregiao"} \subseteq DOMAIN m
    /\ "mesorregiao" \in DOMAIN m.microrregiao
    /\ "UF" \in DOMAIN m.microrregiao.mesorregiao
    /\ {"id", "sigla", "nome", "regiao"} \subseteq DOMAIN m.microrregiao.mesorregiao.UF
    /\ "nome" \in DOMAIN m.microrregiao.mesorregiao.UF.regiao

EstadoRow(e) ==
    [codigo_uf |-> e.id, uf |-> e.sigla, estado |-> e.nome, regiao |-> e.regiao.nome]

MunicipioRow(m) ==
    LET UF == m.microrregiao.mesorregiao.UF
    IN  [codigo_ibge |-> m.id, municipio |-> m.nome, codigo_uf |-> UF.id,
         uf |-> UF.sigla, estado |-> UF.nome, regiao |-> UF.regiao.nome]

\* lines 31-39: the list comprehension raises KeyError at the first record lacking a key
NormalizarEstados(json) ==
    IF \E i \in 1..Len(json) : ~EstadoKeysPresent(json[i]) THEN Raise("KeyError")
    ELSE FrameFromRecords({"codigo_uf", "uf", "estado", "regiao"},
                          [i \in 1..Len(json) |-> EstadoRow(json[i])])

\* NormalizarMunicipios skipping the records that lack a key instead of raising
NormalizarMunicipios_SkipMalformed(json) ==
    LET good == SelectSeq(json, MunicipioKeysPresent)
    IN  FrameFromRecords({"codigo_ibge", "municipio", "codigo_uf", "uf", "estado", "regiao"},
                         [i \in 1..Len(good) |-> MunicipioRow(good[i])])

\* lines 47-57
NormalizarMunicipios(json) ==
    IF \E i \in 1..Len(json) : ~MunicipioKeysPresent(json[i]) THEN Raise("KeyError")
    ELSE FrameFromRecords({"codigo_ibge", "municipio", "codigo_uf", "uf", "estado", "regiao"},
                          [i \in 1..Len(json) |-> MunicipioRow(json[i])])

\* the try block left at line 61: df_estados is bound if line 31 had completed
ApiFailed(exc, reqs, dfe) ==
    [exc |-> exc, requests |-> reqs, estados_json |-> Unset, mun_json |-> Unset,
     df_estados |-> dfe, df_municipios |-> Unset]

\* the try block, lines 24-59, against the answers the two endpoints give
TryApi(resp_estados, resp_mun) ==
    LET ej == HttpJson(resp_estados)
    IN  IF IsRaised(ej) THEN ApiFailed(ej.raised, <<"api_estados">>, Unset)
        ELSE LET dfe == NormalizarEstados(ej.value)
             IN  IF IsRaised(dfe) THEN ApiFailed(dfe.raised, <<"api_estados">>, Unset)
                 ELSE LET mj == HttpJson(resp_mun)
                          reqs == <<"api_estados", "api_municipios">>
                      IN  IF IsRaised(mj) THEN ApiFailed(mj.raised, reqs, dfe)
                          ELSE LET dfm == NormalizarMunicipios(mj.value)
                               IN  IF IsRaised(dfm) THEN ApiFailed(dfm.raised, reqs, dfe)
                                   ELSE [exc |-> NoExc, requests |-> reqs,
                                         estados_json |-> ej, mun_json |-> mj,
                                         df_estados |-> dfe, df_municipios |-> dfm]

CsvFailed(exc, reqs) ==
    [exc |-> exc, requests |-> reqs, csv_municipios |-> Unset, csv_estados |-> Unset,
     df_estados |-> Unset, df_municipios |-> Unset]

\* ExceptCsv downloading the municipalities CSV a second time when the first read fails
ExceptCsv_Retry(resp_municipios, resp_estados) ==
    IF resp_municipios.kind # "ok"
    THEN CsvFailed("read_csv municipios", <<"csv_municipios", "csv_municipios">>)
    ELSE LET reqs == <<"csv_municipios", "csv_estados">>
         IN  IF resp_estados.kind # "ok" THEN CsvFailed("read_csv estados", reqs)
             ELSE LET est == Rename(resp_estados.frame, "nome", "estado")
                      mun == Rename(resp_municipios.frame, "nome", "municipio")
                      sel == Select(est, {"codigo_uf", "uf", "estado", "regiao"})
                      mrg == IF IsRaised(sel) THEN sel ELSE MergeLeft(mun, sel, "codigo_uf")
                  IN  IF IsRaised(mrg) THEN CsvFailed(mrg.raised, reqs)
                      ELSE [exc |-> NoExc, requests |-> reqs,
                            csv_municipios |-> resp_municipios.frame,
                            csv_estados |-> resp_estados.frame,
                            df_estados |-> est, df_municipios |-> mrg]

\* the except block, lines 62-81, against the answers the two CSV urls give
ExceptCsv(resp_municipios, resp_estados) ==
    IF resp_municipios.kind # "ok" THEN CsvFailed("read_csv municipios", <<"csv_municipios">>)
    ELSE LET reqs == <<"csv_municipios", "csv_estados">>
         IN  IF resp_estados.kind # "ok" THEN CsvFailed("read_csv estados", reqs)
             ELSE LET est == Rename(resp_estados.frame, "nome", "estado")
                      mun == Rename(resp_municipios.frame, "nome", "municipio")
                      sel == Select(est, {"codigo_uf", "uf", "estado", "regiao"})
                      mrg == IF IsRaised(sel) THEN sel ELSE MergeLeft(mun, sel, "codigo_uf")
                  IN  IF IsRaised(mrg) THEN CsvFailed(mrg.raised, reqs)
                      ELSE [exc |-> NoExc, requests |-> reqs,
                            csv_municipios |-> resp_municipios.frame,
                            csv_estados |-> resp_estados.frame,
                            df_estados |-> est, df_municipios |-> mrg]

\* carregar_dados labelling the fallback result "API IBGE"
carregar_dados_LabelApi(api, csv) ==
    IF api.exc = NoExc
    THEN [ok |-> TRUE, requests |-> api.requests, api_exc |-> NoExc, csv_exc |-> NoExc,
          estados_json |-> api.estados_json, mun_json |-> api.mun_json,
          csv_municipios |-> Unset, csv_estados |-> Unset,
          df_estados |-> api.df_estados, df_municipios |-> api.df_municipios,
          fonte |-> FonteApi]
    ELSE [ok |-> csv.exc = NoExc, requests |-> api.requests \o csv.requests,
          api_exc |-> api.exc, csv_exc |-> csv.exc,
          estados_json |-> Unset, mun_json |-> Unset,
          csv_municipios |-> csv.csv_municipios, csv_estados |-> csv.csv_estados,
          df_estados |-> csv.df_estados, df_municipios |-> csv.df_municipios,
          fonte |-> IF csv.exc = NoExc THEN FonteApi ELSE ""]

\* carregar_dados without line 67: the states table the try block built is returned
\* when there is one
carregar_dados_KeepApiEstados(api, csv) ==
    IF api.exc = NoExc
    THEN [ok |-> TRUE, requests |-> api.requests, api_exc |-> NoExc, csv_exc |-> NoExc,
          estados_json |-> api.estados_json, mun_json |-> api.mun_json,
          csv_municipios |-> Unset, csv_estados |-> Unset,
          df_estados |-> api.df_estados, df_municipios |-> api.df_municipios,
          fonte |-> FonteApi]
    ELSE [ok |-> csv.exc = NoExc, requests |-> api.requests \o csv.requests,
          api_exc |-> api.exc, csv_exc |-> csv.exc,
          estados_json |-> Unset, mun_json |-> Unset,
          csv_municipios |-> csv.csv_municipios, csv_estados |-> csv.csv_estados,
          df_estados |-> IF csv.exc = NoExc /\ api.df_estados # Unset
                         THEN api.df_estados ELSE csv.df_estados,
          df_municipios |-> csv.df_municipios,
          fonte |-> IF csv.exc = NoExc THEN FonteCsv ELSE ""]

\* carregar_dados: api is what the try block did, csv what the except block does if entered
carregar_dados(api, csv) ==
    IF api.exc = NoExc
    THEN [ok |-> TRUE, requests |-> api.requests, api_exc |-> NoExc, csv_exc |-> NoExc,
          estados_json |-> api.estados_json, mun_json |-> api.mun_json,
          csv_municipios |-> Unset, csv_estados |-> Unset,
          df_estados |-> api.df_estados, df_municipios |-> api.df_municipios,
          fonte |-> FonteApi]
    ELSE [ok |-> csv.exc = NoExc, requests |-> api.requests \o csv.requests,
          api_exc |-> api.exc, csv_exc |-> csv.exc,
          estados_json |-> Unset, mun_json |-> Unset,
          csv_municipios |-> csv.csv_municipios, csv_estados |-> csv.csv_estados,
          df_estados |-> csv.df_estados, df_municipios |-> csv.df_municipios,
          fonte |-> IF csv.exc = NoExc THEN FonteCsv ELSE ""]

ApiAttempts ==
    {TryApi(re, rm) : re \in HttpResponses(ApiEstadoRecords),
                      rm \in HttpResponses(ApiMunicipioRecords)}
CsvAttempts ==
    {ExceptCsv(cm, ce) : cm \in CsvMunicipiosResponses, ce \in CsvEstadosResponses}
LoadOutcomes == {carregar_dados(a, c) : a \in ApiAttempts, c \in CsvAttempts}

(***************************************************************************)
(* The module-level script after the load, lines 91-155.                   *)
(***************************************************************************)
\* str ordering of the keys groupby sorts by
RegiaoSorted == <<"Centro-Oeste", "Nordeste", "Norte", "Sudeste", "Sul">>
UFSorted ==
    <<"AC", "AL", "AM", "AP", "BA", "CE", "DF", "ES", "GO", "MA", "MG", "MS", "MT", "PA",
      "PB", "PE", "PI", "PR", "RJ", "RN", "RO", "RR", "RS", "SC", "SE", "SP", "TO">>
\* line 105
ordem_regioes == <<"Norte", "Nordeste", "Centro-Oeste", "Sudeste", "Sul">>

RangeOf(s) == {s[i] : i \in DOMAIN s}
SeqMap(Op(_), s) == [i \in 1..Len(s) |-> Op(s[i])]

\* the non-NaN values of a column
NonNull(df, col) == {df.rows[i][col] : i \in 1..Len(df.rows)} \ {NaN}
CountOf(df, col, k) == Cardinality({i \in 1..Len(df.rows) : df.rows[i][col] = k})

\* df.groupby(col).size().reset_index(): one row per non-NaN key (dropna=True), in the
\* sorted order of the keys (sort=True)
GroupBySize(df, col, sorted) ==
    LET present == NonNull(df, col)
        ks == SelectSeq(sorted, LAMBDA k : k \in present)
    IN  [i \in 1..Len(ks) |-> [key |-> ks[i], size |-> CountOf(df, col, ks[i])]]

\* line 94
GroupByRegiao(df) ==
    LET AsRow(g) == [regiao |-> g.key, qtd |-> g.size]
    IN  SeqMap(AsRow, GroupBySize(df, "regiao", RegiaoSorted))

\* lines 147-149
GroupByUF(df) ==
    LET AsRow(g) == [uf |-> g.key, Quantidade |-> g.size]
    IN  SeqMap(AsRow, GroupBySize(df, "uf", UFSorted))

\* IdxMax returning the last position holding the maximum
IdxMax_Last(g) ==
    LET m == Max({g[i].qtd : i \in 1..Len(g)})
    IN  Max({i \in 1..Len(g) : g[i].qtd = m})

\* Series.idxmax(): the first position holding the maximum
IdxMax(g) ==
    LET m == Max({g[i].qtd : i \in 1..Len(g)})
    IN  Min({i \in 1..Len(g) : g[i].qtd = m})

\* lines 106-109: rows in the order of the categories
SortByCategory(g, categories) ==
    LET present == {g[i].regiao : i \in 1..Len(g)}
        ks == SelectSeq(categories, LAMBDA k : k \in present)
        RowOf(k) == CHOOSE r \in RangeOf(g) : r.regiao = k
    IN  SeqMap(RowOf, ks)

RECURSIVE Perms(_)
Perms(S) ==
    IF S = {} THEN {<<>>}
    ELSE UNION {{<<x>> \o p : p \in Perms(S \ {x})} : x \in S}

RECURSIVE TiersDescending(_, _)
TiersDescending(g, values) ==
    IF values = {} THEN {<<>>}
    ELSE LET m == Max(values)
             tier == {r \in RangeOf(g) : r.Quantidade = m}
         IN  {p \o rest : p \in Perms(tier), rest \in TiersDescending(g, values \ {m})}

RECURSIVE TiersAscending(_, _)
TiersAscending(g, values) ==
    IF values = {} THEN {<<>>}
    ELSE LET m == Min(values)
             tier == {r \in RangeOf(g) : r.Quantidade = m}
         IN  {p \o rest : p \in Perms(tier), rest \in TiersAscending(g, values \ {m})}

\* SortValuesDescending without ascending=False
SortValuesAscending(g) == TiersAscending(g, {g[i].Quantidade : i \in 1..Len(g)})

\* .sort_values("Quantidade", ascending=False): kind defaults to "quicksort", which pandas
\* documents as not stable, so rows of equal Quantidade may come out in any order
SortValuesDescending(g) == TiersDescending(g, {g[i].Quantidade : i \in 1..Len(g)})

\* .head(n)
HeadRows(s, n) == SubSeq(s, 1, IF Len(s) < n THEN Len(s) ELSE n)

\* .reset_index(drop=True): index 0..k-1
ResetIndex(s) == [i \in 0..(Len(s) - 1) |-> s[i + 1]]

\* line 154: index + 1
ShiftIndex(f, d) == [i \in {j + d : j \in DOMAIN f} |-> f[i - d]]

\* line 155
RenameUF(f) == [i \in DOMAIN f |-> [UF |-> f[i].uf, Quantidade |-> f[i].Quantidade]]

\* lines 150-155 applied to one outcome of the sort
Ranking(sorted) == RenameUF(ShiftIndex(ResetIndex(HeadRows(sorted, TopN)), 1))

ScriptAborted(exc, total, nestados, g) ==
    [outcome |-> exc, total_municipios |-> total, total_estados |-> nestados,
     mun_por_regiao |-> g, regiao_mais_municipios |-> "", mun_por_regiao_ord |-> <<>>,
     mun_por_estado |-> <<>>]

\* lines 91-155 on the municipalities table: every way the script can end
Script(dfm) ==
    LET total == Len(dfm.rows)
    IN  IF "uf" \notin dfm.columns THEN {ScriptAborted("KeyError", total, -1, <<>>)}
        ELSE LET nestados == Cardinality(NonNull(dfm, "uf"))
             IN  IF "regiao" \notin dfm.columns
                 THEN {ScriptAborted("KeyError", total, nestados, <<>>)}
                 ELSE LET g == GroupByRegiao(dfm)
                      IN  IF g = <<>> THEN {ScriptAborted("ValueError", total, nestados, g)}
                          ELSE {[outcome |-> "ok", total_municipios |-> total,
                                 total_estados |-> nestados, mun_por_regiao |-> g,
                                 regiao_mais_municipios |-> g[IdxMax(g)].regiao,
                                 mun_por_regiao_ord |-> SortByCategory(g, ordem_regioes),
                                 mun_por_estado |-> Ranking(s)] :
                                   s \in SortValuesDescending(GroupByUF(dfm))}

(***************************************************************************)
(* @st.cache_data(ttl=3600), line 18.                                      *)
(***************************************************************************)
NoEntry == [stored |-> FALSE]
Entry(value, t) == [stored |-> TRUE, value |-> value, stamp |-> t]
\* CacheHit without the ttl: an entry serves every later call
CacheHit_NoExpiry(entry, t) == entry.stored /\ t >= entry.stamp

\* an entry serves calls until it is TTL seconds old
CacheHit(entry, t) == entry.stored /\ t - entry.stamp < TTL

(***************************************************************************)
(* The state machine: the clock, and one run of the script.                *)
(***************************************************************************)
ScriptVars ==
    <<outcome, total_municipios, total_estados, mun_por_regiao, regiao_mais_municipios,
      mun_por_regiao_ord, mun_por_estado>>

RunScript(dfm) ==
    \E r \in Script(dfm) :
        /\ outcome' = r.outcome
        /\ total_municipios' = r.total_municipios
        /\ total_estados' = r.total_estados
        /\ mun_por_regiao' = r.mun_por_regiao
        /\ regiao_mais_municipios' = r.regiao_mais_municipios
        /\ mun_por_regiao_ord' = r.mun_por_regiao_ord
        /\ mun_por_estado' = r.mun_por_estado

Init ==
    /\ now = 0
    /\ cache = NoEntry
    /\ lastOp = "init"
    /\ outcome = "init"
    /\ requests = <<>>
    /\ api_exc = NoExc
    /\ csv_exc = NoExc
    /\ estados_json = Unset
    /\ mun_json = Unset
    /\ csv_municipios = Unset
    /\ csv_estados = Unset
    /\ df_estados = Unset
    /\ df_municipios = Unset
    /\ fonte = ""
    /\ total_municipios = -1
    /\ total_estados = -1
    /\ mun_por_regiao = <<>>
    /\ regiao_mais_municipios = ""
    /\ mun_por_regiao_ord = <<>>
    /\ mun_por_estado = <<>>

TickSteps == {TTL \div 2, TTL - 1}

Tick(d) ==
    /\ now + d <= MaxTime
    /\ now' = now + d
    /\ lastOp' = "tick"
    /\ UNCHANGED <<cache, requests, api_exc, csv_exc, estados_json, mun_json,
                   csv_municipios, csv_estados, df_estados, df_municipios, fonte>>
    /\ UNCHANGED ScriptVars

\* a run of the script whose call of carregar_dados is served from the cache
RerunCached ==
    /\ CacheHit(cache, now)
    /\ lastOp' = "rerun"
    /\ requests' = <<>>
    /\ api_exc' = NoExc
    /\ csv_exc' = NoExc
    /\ estados_json' = Unset
    /\ mun_json' = Unset
    /\ csv_municipios' = Unset
    /\ csv_estados' = Unset
    /\ df_estados' = cache.value.df_estados
    /\ df_municipios' = cache.value.df_municipios
    /\ fonte' = cache.value.fonte
    /\ RunScript(cache.value.df_municipios)
    /\ UNCHANGED <<now, cache>>

\* a run of the script whose call of carregar_dados runs the function
RerunLoad ==
    /\ ~CacheHit(cache, now)
    /\ \E o \in LoadOutcomes :
        /\ lastOp' = "rerun"
        /\ requests' = o.requests
        /\ api_exc' = o.api_exc
        /\ csv_exc' = o.csv_exc
        /\ estados_json' = o.estados_json
        /\ mun_json' = o.mun_json
        /\ csv_municipios' = o.csv_municipios
        /\ csv_estados' = o.csv_estados
        /\ df_estados' = o.df_estados
        /\ df_municipios' = o.df_municipios
        /\ fonte' = o.fonte
        /\ IF o.ok
           THEN /\ cache' = Entry([df_estados |-> o.df_estados,
                                   df_municipios |-> o.df_municipios,
                                   fonte |-> o.fonte], now)
                /\ RunScript(o.df_municipios)
           ELSE /\ cache' = NoEntry
                /\ outcome' = "load raised"
                /\ total_municipios' = -1
                /\ total_estados' = -1
                /\ mun_por_regiao' = <<>>
                /\ regiao_mais_municipios' = ""
                /\ mun_por_regiao_ord' = <<>>
                /\ mun_por_estado' = <<>>
    /\ UNCHANGED now

Next ==
    \/ \E d \in TickSteps : Tick(d)
    \/ RerunCached
    \/ RerunLoad

Spec == Init /\ [][Next]_vars

(***************************************************************************)
(* The aggregation on ranking fixtures: municipality tables of up to MaxUF *)
(* states, enough for .head(10) to cut.                                    *)
(***************************************************************************)
RegiaoDe ==
    [AC |-> "Norte", AL |-> "Nordeste", AM |-> "Norte", AP |-> "Norte", BA |-> "Nordeste",
     CE |-> "Nordeste", DF |-> "Centro-Oeste", ES |-> "Sudeste", GO |-> "Centro-Oeste",
     MA |-> "Nordeste", MG |-> "Sudeste", MS |-> "Centro-Oeste", MT |-> "Centro-Oeste",
     PA |-> "Norte", PB |-> "Nordeste", PE |-> "Nordeste", PI |-> "Nordeste", PR |-> "Sul",
     RJ |-> "Sudeste", RN |-> "Nordeste", RO |-> "Norte", RR |-> "Norte", RS |-> "Sul",
     SC |-> "Sul", SE |-> "Nordeste", SP |-> "Sudeste", TO |-> "Norte"]

\* municipality counts of the first n states: a sawtooth over 1..MaxCount, rising or falling
FixtureCounts(n, off, rising) ==
    [i \in 1..n |-> IF rising THEN 1 + ((i + off) % MaxCount)
                    ELSE MaxCount - ((i + off) % MaxCount)]

\* the table normalised from an API answer holding those municipalities, the states in
\* alphabetical order or in the reverse of it
FixtureMunicipios(n, off, rising, reversed) ==
    LET counts == FixtureCounts(n, off, rising)
        RowOf(i, j) ==
            [codigo_ibge |-> i * 100 + j, municipio |-> "municipio", codigo_uf |-> i,
             uf |-> UFSorted[i], estado |-> UFSorted[i], regiao |-> RegiaoDe[UFSorted[i]]]
        Block(i) == [j \in 1..counts[i] |-> RowOf(i, j)]
        Pick(k) == IF reversed THEN n + 1 - k ELSE k
    IN  DataFrame({"codigo_ibge", "municipio", "codigo_uf", "uf", "estado", "regiao"},
                  Flatten([k \in 1..n |-> Block(Pick(k))]))

InitAgg ==
    /\ now = 0
    /\ cache = NoEntry
    /\ lastOp = "init"
    /\ outcome = "init"
    /\ requests = <<>>
    /\ api_exc = NoExc
    /\ csv_exc = NoExc
    /\ estados_json = Unset
    /\ mun_json = Unset
    /\ csv_municipios = Unset
    /\ csv_estados = Unset
    /\ df_estados = Unset
    /\ \E n \in 1..MaxUF, off \in 0..(MaxCount - 1), rising \in BOOLEAN, reversed \in BOOLEAN :
          df_municipios = FixtureMunicipios(n, off, rising, reversed)
    /\ fonte = FonteApi
    /\ total_municipios = -1
    /\ total_estados = -1
    /\ mun_por_regiao = <<>>
    /\ regiao_mais_municipios = ""
    /\ mun_por_regiao_ord = <<>>
    /\ mun_por_estado = <<>>

\* lines 91-155 on the loaded table
Aggregate ==
    /\ lastOp' = "aggregate"
    /\ RunScript(df_municipios)
    /\ UNCHANGED <<now, cache, requests, api_exc, csv_exc, estados_json, mun_json,
                   csv_municipios, csv_estados, df_estados, df_municipios, fonte>>

NextAgg == Aggregate

SpecAgg == InitAgg /\ [][NextAgg]_vars

(***************************************************************************)
(* Properties.                                                             *)
(***************************************************************************)
\* the variables hold what a run that executed carregar_dados left
LoadRan == requests # <<>>
CsvReadErrors == {"read_csv municipios", "read_csv estados"}

RECURSIVE SumQtd(_)
SumQtd(g) == IF g = <<>> THEN 0 ELSE Head(g).qtd + SumQtd(Tail(g))

\* C1 as stated: whenever a step of the API path failed and both CSV downloads succeeded,
\* the load returns the CSV tables under the label "CSV GitHub (fallback)"
C1_FallbackWheneverDownloaded ==
    (LoadRan /\ api_exc # NoExc /\ csv_exc \notin CsvReadErrors)
        => (fonte = FonteCsv /\ ~IsRaised(df_municipios) /\ "unset" \notin DOMAIN df_municipios)

\* C1 amended: when a step of the API path failed and the CSV downloads and the CSV
\* normalisation (column selection and merge) all succeeded, the load returns the tables
\* built from the CSV files under the label "CSV GitHub (fallback)"; the label is
\* "API IBGE" exactly when both API requests and both API normalisations succeeded
C1_FallbackLabel ==
    LoadRan =>
        /\ (api_exc # NoExc /\ csv_exc = NoExc) =>
              /\ fonte = FonteCsv
              /\ df_estados = Rename(csv_estados, "nome", "estado")
              /\ df_municipios.columns =
                    (csv_municipios.columns \ {"nome"}) \cup {"municipio", "uf", "estado", "regiao"}
              /\ Len(df_estados.rows) = Len(csv_estados.rows)
              /\ Len(df_municipios.rows) >= Len(csv_municipios.rows)
        /\ (fonte = FonteApi) <=>
              /\ api_exc = NoExc
              /\ requests = <<"api_estados", "api_municipios">>
              /\ df_estados = NormalizarEstados(estados_json.value)
              /\ df_municipios = NormalizarMunicipios(mun_json.value)

C1_Witness ==
    /\ lastOp = "rerun"
    /\ api_exc = "Timeout"
    /\ csv_exc = NoExc
    /\ fonte = FonteCsv
    /\ Len(df_municipios.rows) = 2

\* C2: a run of the script within TTL seconds of the load that filled the cache gets the
\* cached (states, municipalities, label) and issues no request; a run outside it issues
\* requests again and, when the load returns, the entry is replaced by the new result
C2_CachedWithinTTL ==
    [][lastOp' = "rerun" =>
         IF cache.stored /\ now - cache.stamp < TTL
         THEN /\ requests' = <<>>
              /\ df_estados' = cache.value.df_estados
              /\ df_municipios' = cache.value.df_municipios
              /\ fonte' = cache.value.fonte
              /\ cache' = cache
         ELSE /\ requests' # <<>>
              /\ cache'.stored =>
                    cache' = Entry([df_estados |-> df_estados', df_municipios |-> df_municipios',
                                    fonte |-> fonte'], now)]_vars

C2_Witness ==
    /\ lastOp = "rerun"
    /\ requests = <<>>
    /\ cache.stored
    /\ now - cache.stamp = TTL - 1
    /\ fonte = cache.value.fonte
    /\ fonte = FonteCsv

\* C3: after a load that returned, the counts of mun_por_regiao sum to total_municipios
C3_RegionCountsSumToTotal ==
    outcome = "ok" => SumQtd(mun_por_regiao) = total_municipios

\* C4: on the CSV path every row of the municipalities CSV is in the returned table; a row
\* whose codigo_uf matches no state row has NaN uf, estado and regiao, a row whose codigo_uf
\* matches a state row carries that row's uf, estado and regiao
C4_LeftJoinKeepsRows ==
    (LoadRan /\ fonte = FonteCsv) =>
        LET raw == csv_municipios.rows
            out == df_municipios.rows
            est == df_estados.rows
            Matches(r) == {e \in RangeOf(est) : e.codigo_uf = r.codigo_uf}
        IN  /\ \A i \in 1..Len(raw) :
                  \E j \in 1..Len(out) :
                      /\ out[j].codigo_ibge = raw[i].codigo_ibge
                      /\ out[j].municipio = raw[i].nome
                      /\ out[j].codigo_uf = raw[i].codigo_uf
            /\ Len(out) >= Len(raw)
            /\ \A j \in 1..Len(out) :
                  IF Matches(out[j]) = {}
                  THEN out[j].uf = NaN /\ out[j].estado = NaN /\ out[j].regiao = NaN
                  ELSE \E e \in Matches(out[j]) :
                          out[j].uf = e.uf /\ out[j].estado = e.estado /\ out[j].regiao = e.regiao

C4_Witness ==
    /\ LoadRan
    /\ fonte = FonteCsv
    /\ \E j \in 1..Len(df_municipios.rows) :
          df_municipios.rows[j].codigo_uf = 99 /\ df_municipios.rows[j].regiao = NaN
    /\ \E j \in 1..Len(df_municipios.rows) : df_municipios.rows[j].uf = "RO"

\* C5: a record lacking an expected key fails the whole API attempt and the fallback is
\* taken; a result labelled "API IBGE" holds one row for every record received, all of
\* them well formed
C5_MissingKeyFailsApi ==
    LoadRan =>
        /\ api_exc = "KeyError" =>
              /\ fonte # FonteApi
              /\ requests[Len(requests)] \in {"csv_municipios", "csv_estados"}
              /\ csv_exc = NoExc => fonte = FonteCsv
        /\ fonte = FonteApi =>
              /\ \A i \in 1..Len(estados_json.value) :
                    /\ {"id", "sigla", "nome", "regiao"} \subseteq DOMAIN estados_json.value[i]
                    /\ "nome" \in DOMAIN estados_json.value[i].regiao
              /\ \A i \in 1..Len(mun_json.value) : MunicipioKeysPresent(mun_json.value[i])
              /\ Len(df_estados.rows) = Len(estados_json.value)
              /\ Len(df_municipios.rows) = Len(mun_json.value)

C5_Witness ==
    /\ lastOp = "rerun"
    /\ api_exc = "KeyError"
    /\ requests = <<"api_estados", "api_municipios", "csv_municipios", "csv_estados">>
    /\ fonte = FonteCsv

UFIndex(uf) == CHOOSE i \in 1..Len(UFSorted) : UFSorted[i] = uf

\* C6: mun_por_estado holds one row per state with its municipality count, in
\* non-increasing order of the count, min(10, number of distinct states) rows, no dropped
\* state counting more than a kept one, indexed 1..k
C6_TopStates ==
    outcome = "ok" =>
        LET ufs == NonNull(df_municipios, "uf")
            k == IF Cardinality(ufs) < TopN THEN Cardinality(ufs) ELSE TopN
            kept == {mun_por_estado[i].UF : i \in DOMAIN mun_por_estado}
        IN  /\ DOMAIN mun_por_estado = 1..k
            /\ Cardinality(kept) = k
            /\ \A i \in DOMAIN mun_por_estado :
                  /\ mun_por_estado[i].UF \in ufs
                  /\ mun_por_estado[i].Quantidade = CountOf(df_municipios, "uf", mun_por_estado[i].UF)
            /\ \A i, j \in DOMAIN mun_por_estado :
                  i < j => mun_por_estado[i].Quantidade >= mun_por_estado[j].Quantidade
            /\ \A u \in ufs \ kept : \A i \in DOMAIN mun_por_estado :
                  CountOf(df_municipios, "uf", u) <= mun_por_estado[i].Quantidade

C6_Witness ==
    /\ lastOp = "aggregate"
    /\ outcome = "ok"
    /\ Cardinality(NonNull(df_municipios, "uf")) > TopN
    /\ DOMAIN mun_por_estado = 1..TopN
    /\ mun_por_estado[1].Quantidade > mun_por_estado[TopN].Quantidade
    /\ UFIndex(mun_por_estado[1].UF) > UFIndex(mun_por_estado[TopN].UF)

\* C7: in mun_por_estado states of equal count stand in their order in the grouped table
\* (the order of groupby), and of the states tied at the cut the first ones are kept
C7_TiesInGroupedOrder ==
    outcome = "ok" =>
        LET ufs == NonNull(df_municipios, "uf")
            kept == {mun_por_estado[i].UF : i \in DOMAIN mun_por_estado}
        IN  /\ \A i, j \in DOMAIN mun_por_estado :
                  (i < j /\ mun_por_estado[i].Quantidade = mun_por_estado[j].Quantidade)
                      => UFIndex(mun_por_estado[i].UF) < UFIndex(mun_por_estado[j].UF)
            /\ \A u \in ufs \ kept : \A i \in DOMAIN mun_por_estado :
                  CountOf(df_municipios, "uf", u) = mun_por_estado[i].Quantidade
                      => UFIndex(mun_por_estado[i].UF) < UFIndex(u)

\* C8: regiao_mais_municipios is a region of maximal count in mun_por_regiao, and the
\* first such row of mun_por_regiao
C8_RegionWithMax ==
    outcome = "ok" =>
        \E i \in 1..Len(mun_por_regiao) :
            /\ mun_por_regiao[i].regiao = regiao_mais_municipios
            /\ \A j \in 1..Len(mun_por_regiao) : mun_por_regiao[j].qtd <= mun_por_regiao[i].qtd
            /\ \A j \in 1..(i - 1) : mun_por_regiao[j].qtd < mun_por_regiao[i].qtd

C8_Witness ==
    /\ lastOp = "aggregate"
    /\ outcome = "ok"
    /\ \E i, j \in 1..Len(mun_por_regiao) :
          /\ i < j
          /\ mun_por_regiao[i].regiao = regiao_mais_municipios
          /\ mun_por_regiao[j].qtd = mun_por_regiao[i].qtd
          /\ \A l \in 1..Len(mun_por_regiao) : mun_por_regiao[l].qtd <= mun_por_regiao[i].qtd

\* C9: when the API path fails and the except block fails too, the load raises: nothing is
\* bound at line 84, nothing is cached, and no url was requested twice; a load raises only
\* in that case
C9_FallbackFailureRaises ==
    LoadRan =>
        /\ (api_exc # NoExc /\ csv_exc # NoExc) <=> (outcome = "load raised")
        /\ outcome = "load raised" =>
              /\ fonte = ""
              /\ df_estados = Unset
              /\ df_municipios = Unset
              /\ ~cache.stored
              /\ total_municipios = -1
        /\ \A i, j \in 1..Len(requests) : i # j => requests[i] # requests[j]
        /\ Len(requests) <= 4

C9_Witness ==
    /\ lastOp = "rerun"
    /\ api_exc = "HTTPError"
    /\ csv_exc = "KeyError"
    /\ outcome = "load raised"
    /\ requests = <<"api_estados", "csv_municipios", "csv_estados">>

RequestOrder == <<"api_estados", "api_municipios", "csv_municipios", "csv_estados">>
RequestIndex(r) == CHOOSE i \in 1..Len(RequestOrder) : RequestOrder[i] = r

\* C10: requests go out in the order API states, API municipalities, CSV municipalities,
\* CSV states, the CSV ones only after an API step failed; both returned tables come from
\* the source the label names, so a states table built from the API is never returned
\* with CSV municipalities
C10_OrderAndSameSource ==
    LoadRan =>
        /\ requests[1] = "api_estados"
        /\ \A i, j \in 1..Len(requests) :
              i < j => RequestIndex(requests[i]) < RequestIndex(requests[j])
        /\ (\E i \in 1..Len(requests) : requests[i] \in {"csv_municipios", "csv_estados"})
              => api_exc # NoExc
        /\ (\E i \in 1..Len(requests) : requests[i] = "csv_estados")
              => (\E i \in 1..Len(requests) : requests[i] = "csv_municipios")
        /\ fonte = FonteApi =>
              /\ df_estados = NormalizarEstados(estados_json.value)
              /\ df_municipios = NormalizarMunicipios(mun_json.value)
              /\ "latitude" \notin df_estados.columns
        /\ fonte = FonteCsv =>
              /\ df_estados = Rename(csv_estados, "nome", "estado")
              /\ csv_estados.columns \subseteq (df_estados.columns \cup {"nome"})
              /\ "latitude" \in df_estados.columns
              /\ "municipio" \in df_municipios.columns

C10_Witness ==
    /\ lastOp = "rerun"
    /\ requests = RequestOrder
    /\ api_exc = "JSONDecodeError"
    /\ fonte = FonteCsv
    /\ Len(df_estados.rows) > 0

====
